---- MODULE Spec2Model ----
(***************************************************************************)
(* Model of reminder_full.c: the task store guarded by tasks_mutex, the    *)
(* menu thread (add / view / delete / save & exit), the scheduler thread   *)
(* (next_deadline, alarm wait, extraction of due tasks, save, spawn) and   *)
(* the detached reminder threads with their 30/10/15/4/1 countdown.        *)
(*                                                                         *)
(* A task is modelled by its id and its deadline; title, category and      *)
(* priority are copied around by the code but decide nothing.              *)
(* Time is a discrete clock `now` (seconds, time(NULL)).  A timer that has *)
(* expired (sleep(), alarm()) is served before the clock advances again.   *)
(* SIGALRM is process directed; its handler runs on the main thread (the   *)
(* thread group leader, which never blocks the signal), so a reminder      *)
(* thread's sleep() is not interrupted by it.                              *)
(***************************************************************************)
EXTENDS Integers, Sequences, FiniteSets, TLC

\* ---- bounds of the model ----
MaxTime == 63
MaxDeadline == 3
MaxAdds == 2
LastInputTime == 1

\* ---- program constants ----
\* MAX_TASKS is 256 in the source; scaled down so that a full store is reachable.
MAX_TASKS == 2
intervals == <<30, 10, 15, 4, 1>>
announce_secs == <<30, 20, 5, 1, 0>>

Deadlines == 1..MaxDeadline

VARIABLES
    now,          \* time(NULL)
    tasks,        \* tasks[0 .. task_count-1]
    task_count,
    next_id,
    file,         \* contents of tasks.txt
    lock,         \* owner of tasks_mutex: "free", "menu" or "sched"
    alarm_fired,
    alarm_at,     \* expiry time of the pending alarm(), 0 when none
    running,      \* FALSE after _exit(0)
    pc_m,         \* position of the main (menu) thread
    m_arg,        \* the deadline / id the user typed
    pc_s,         \* position of the scheduler thread
    nd,           \* scheduler local: result of next_deadline(), 0 outside
                  \* the loop iteration that called it
    s_wake,       \* scheduler local: end of the current sleep()
    tnow,         \* scheduler local
    due_count,    \* scheduler local
    copies,       \* scheduler local: malloc'ed copies of the due tasks
    notifiers,    \* every due_copy_t ever built, with its reminder thread
    issued,       \* history: ids handed out by add_task, in order
    deleted       \* history: tasks removed by delete_task

vars == <<now, tasks, task_count, next_id, file, lock, alarm_fired, alarm_at,
          running, pc_m, m_arg, pc_s, nd, s_wake, tnow, due_count, copies,
          notifiers, issued, deleted>>

store == <<tasks, task_count, next_id>>
menuv == <<pc_m, m_arg>>
schedv == <<pc_s, nd, s_wake, tnow, due_count, copies>>
hist == <<issued, deleted>>

Task(i, d) == [id |-> i, deadline |-> d]

\* ---- pure helpers ----

RECURSIVE LoadNextId(_, _, _)
LoadNextId(f, i, nid) ==
    IF i > Len(f) THEN nid
    ELSE LoadNextId(f, i + 1, IF f[i].id >= nid THEN f[i].id + 1 ELSE nid)

LoadTasks(f) == SubSeq(f, 1, IF Len(f) < MAX_TASKS THEN Len(f) ELSE MAX_TASKS)

\* the fprintf loop of save_tasks stopping one task short
SaveTasksShort(ts, n) == [i \in 1..(n - 1) |-> ts[i]]

\* lines 87-91 of save_tasks: one line per task, in array order
SaveTasks(ts, n) == [i \in 1..n |-> ts[i]]

\* next_deadline without the "best == 0" test of line 168
RECURSIVE NextDeadlineScanNoInit(_, _, _, _, _)
NextDeadlineScanNoInit(ts, n, i, best, t) ==
    IF i > n THEN best
    ELSE IF ts[i].deadline <= t THEN t
    ELSE NextDeadlineScanNoInit(ts, n, i + 1,
             IF ts[i].deadline < best THEN ts[i].deadline ELSE best, t)

RECURSIVE NextDeadlineScan(_, _, _, _, _)
NextDeadlineScan(ts, n, i, best, t) ==
    IF i > n THEN best
    ELSE IF ts[i].deadline <= t THEN t
    ELSE NextDeadlineScan(ts, n, i + 1,
             IF best = 0 \/ ts[i].deadline < best THEN ts[i].deadline ELSE best, t)

next_deadline(ts, n, t) == NextDeadlineScan(ts, n, 1, 0, t)

\* the counting pass with "<" for "<=" in line 230
RECURSIVE DueCountLt(_, _, _, _)
DueCountLt(ts, n, i, t) ==
    IF i > n THEN 0
    ELSE (IF ts[i].deadline < t THEN 1 ELSE 0) + DueCountLt(ts, n, i + 1, t)

RECURSIVE DueCount(_, _, _, _)
DueCount(ts, n, i, t) ==
    IF i > n THEN 0
    ELSE (IF ts[i].deadline <= t THEN 1 ELSE 0) + DueCount(ts, n, i + 1, t)

\* the second pass with "<" for "<=" in line 236
RECURSIVE CompactLt(_, _, _, _, _, _)
CompactLt(ts, n, i, t, cp, kept) ==
    IF i > n THEN <<cp, kept>>
    ELSE IF ts[i].deadline < t
         THEN CompactLt(ts, n, i + 1, t, Append(cp, ts[i]), kept)
         ELSE CompactLt(ts, n, i + 1, t, cp, Append(kept, ts[i]))

\* the second pass without the "else" of line 238: a due task is copied and kept
RECURSIVE CompactKeep(_, _, _, _, _, _)
CompactKeep(ts, n, i, t, cp, kept) ==
    IF i > n THEN <<cp, kept>>
    ELSE IF ts[i].deadline <= t
         THEN CompactKeep(ts, n, i + 1, t, Append(cp, ts[i]), Append(kept, ts[i]))
         ELSE CompactKeep(ts, n, i + 1, t, cp, Append(kept, ts[i]))

\* the second pass of the extraction: <<copies, compacted tasks>>
RECURSIVE Compact(_, _, _, _, _, _)
Compact(ts, n, i, t, cp, kept) ==
    IF i > n THEN <<cp, kept>>
    ELSE IF ts[i].deadline <= t
         THEN Compact(ts, n, i + 1, t, Append(cp, ts[i]), kept)
         ELSE Compact(ts, n, i + 1, t, cp, Append(kept, ts[i]))

\* the search loop of delete_task stopping one slot short of task_count
RECURSIVE FindIdNotLast(_, _, _, _)
FindIdNotLast(ts, n, i, id) ==
    IF i > n - 1 THEN 0
    ELSE IF ts[i].id = id THEN i ELSE FindIdNotLast(ts, n, i + 1, id)

\* lines 150-151 of delete_task: the slot holding id, 0 when there is none
RECURSIVE FindId(_, _, _, _)
FindId(ts, n, i, id) ==
    IF i > n THEN 0
    ELSE IF ts[i].id = id THEN i ELSE FindId(ts, n, i + 1, id)

\* delete_task without the shift loop of line 153: only task_count--
RemoveLast(ts, n, idx) == [i \in 1..(n - 1) |-> ts[i]]

RemoveAt(ts, n, idx) ==
    [i \in 1..(n - 1) |-> IF i < idx THEN ts[i] ELSE ts[i + 1]]

\* add_task numbering the task by its slot instead of next_id
AppendTaskSlotId(ts, n, nid, dl) == <<Append(ts, Task(n + 1, dl)), n + 1, nid + 1>>

\* lines 119-124 of add_task: <<tasks, task_count, next_id>> afterwards
AppendTask(ts, n, nid, dl) == <<Append(ts, Task(nid, dl)), n + 1, nid + 1>>

\* ---- initial state: after main() has run load_tasks() ----
InitFiles == { <<>> }

Init ==
    /\ now = 1
    /\ file \in InitFiles
    /\ tasks = LoadTasks(file)
    /\ task_count = Len(tasks)
    /\ next_id = LoadNextId(file, 1, 1)
    /\ lock = "free"
    /\ alarm_fired = 0
    /\ alarm_at = 0
    /\ running = TRUE
    /\ pc_m = "menu"
    /\ m_arg = 0
    /\ pc_s = "top"
    /\ nd = 0
    /\ s_wake = 0
    /\ tnow = 0
    /\ due_count = 0
    /\ copies = <<>>
    /\ notifiers = <<>>
    /\ issued = <<>>
    /\ deleted = {}

\* ---- tasks_mutex ----
\* a lock that never waits
MutexNoWait(owner) == TRUE

\* pthread_mutex_lock returns only when no thread owns the mutex
MutexFree(owner) == owner = "free"

\* ---- the clock ----
NotifierTimerDue ==
    \E n \in 1..Len(notifiers) :
        notifiers[n].st = "sleeping" /\ notifiers[n].wake <= now

SchedTimerDue ==
    \/ pc_s \in {"poll_sleep", "wait_sleep"} /\ s_wake <= now
    \/ alarm_at # 0 /\ alarm_at <= now

\* a thread that can take a step without waiting for a timer or for input
MenuBusy == pc_m \notin {"menu", "exited"}
SchedBusy == pc_s \notin {"poll_sleep", "wait_sleep"}
NotifierBusy == \E n \in 1..Len(notifiers) : notifiers[n].st = "created"

\* The clock advances by one second.  Before LastInputTime a second may pass
\* between any two steps of a thread; from then on the steps of a thread are
\* fast against the clock and a second passes only while every thread is
\* asleep or waiting for input.  An expired timer is always served first.
Tick ==
    /\ running
    /\ now < MaxTime
    /\ ~NotifierTimerDue
    /\ ~SchedTimerDue
    /\ now < LastInputTime \/ ~(MenuBusy \/ SchedBusy \/ NotifierBusy)
    /\ now' = now + 1
    /\ UNCHANGED <<store, file, lock, alarm_fired, alarm_at, running,
                   menuv, schedv, notifiers, hist>>

\* ---- save_tasks(), shared by both threads ----
\* the "w" fopen and the fprintf loop, done while the mutex is held
SaveWrite == file' = SaveTasks(tasks, task_count)

\* ---- main thread: the menu loop ----
\* scanf of line 279 returns a choice; the user types none after LastInputTime
UserInput ==
    /\ running /\ pc_m = "menu"
    /\ now <= LastInputTime

MenuView ==
    /\ UserInput
    /\ pc_m' = "view_lock"
    /\ UNCHANGED <<now, store, file, lock, alarm_fired, alarm_at, running,
                   m_arg, schedv, notifiers, hist>>

ViewLock ==
    /\ running /\ pc_m = "view_lock" /\ MutexFree(lock)
    /\ lock' = "menu"
    /\ pc_m' = "view_cs"
    /\ UNCHANGED <<now, store, file, alarm_fired, alarm_at, running,
                   m_arg, schedv, notifiers, hist>>

ViewBody ==
    /\ running /\ pc_m = "view_cs"
    /\ lock' = "free"
    /\ pc_m' = "menu"
    /\ UNCHANGED <<now, store, file, alarm_fired, alarm_at, running,
                   m_arg, schedv, notifiers, hist>>

\* the user adds at most MaxAdds tasks
MenuAdd(dl) ==
    /\ UserInput
    /\ Len(issued) < MaxAdds
    /\ m_arg' = dl
    /\ pc_m' = "add_lock"
    /\ UNCHANGED <<now, store, file, lock, alarm_fired, alarm_at, running,
                   schedv, notifiers, hist>>

AddLock ==
    /\ running /\ pc_m = "add_lock" /\ MutexFree(lock)
    /\ lock' = "menu"
    /\ pc_m' = "add_cs"
    /\ UNCHANGED <<now, store, file, alarm_fired, alarm_at, running,
                   m_arg, schedv, notifiers, hist>>

\* add_task returning from the full-store branch of line 118 without
\* pthread_mutex_unlock
AddBodyFullKeepLock ==
    /\ running /\ pc_m = "add_cs"
    /\ IF task_count >= MAX_TASKS
       THEN /\ pc_m' = "menu"
            /\ UNCHANGED <<store, issued, lock>>
       ELSE /\ LET r == AppendTask(tasks, task_count, next_id, m_arg) IN
               /\ tasks' = r[1]
               /\ task_count' = r[2]
               /\ next_id' = r[3]
               /\ issued' = Append(issued, r[1][r[2]].id)
            /\ pc_m' = "save_lock"
            /\ lock' = "free"
    /\ m_arg' = 0
    /\ UNCHANGED <<now, file, alarm_fired, alarm_at, running, schedv,
                   notifiers, deleted>>

\* add_task with "task_count > MAX_TASKS" for ">=" in line 118
AddBodyGt ==
    /\ running /\ pc_m = "add_cs"
    /\ IF task_count > MAX_TASKS
       THEN /\ pc_m' = "menu"
            /\ UNCHANGED <<store, issued>>
       ELSE /\ LET r == AppendTask(tasks, task_count, next_id, m_arg) IN
               /\ tasks' = r[1]
               /\ task_count' = r[2]
               /\ next_id' = r[3]
               /\ issued' = Append(issued, r[1][r[2]].id)
            /\ pc_m' = "save_lock"
    /\ lock' = "free"
    /\ m_arg' = 0
    /\ UNCHANGED <<now, file, alarm_fired, alarm_at, running, schedv,
                   notifiers, deleted>>

\* lines 118-126 of add_task, the mutex held: reject a full store, or append
AddBody ==
    /\ running /\ pc_m = "add_cs"
    /\ IF task_count >= MAX_TASKS
       THEN /\ pc_m' = "menu"
            /\ UNCHANGED <<store, issued>>
       ELSE /\ LET r == AppendTask(tasks, task_count, next_id, m_arg) IN
               /\ tasks' = r[1]
               /\ task_count' = r[2]
               /\ next_id' = r[3]
               /\ issued' = Append(issued, r[1][r[2]].id)
            /\ pc_m' = "save_lock"
    /\ lock' = "free"
    /\ m_arg' = 0
    /\ UNCHANGED <<now, file, alarm_fired, alarm_at, running, schedv,
                   notifiers, deleted>>

MenuDelete(id) ==
    /\ UserInput
    /\ m_arg' = id
    /\ pc_m' = "del_lock"
    /\ UNCHANGED <<now, store, file, lock, alarm_fired, alarm_at, running,
                   schedv, notifiers, hist>>

DeleteLock ==
    /\ running /\ pc_m = "del_lock" /\ MutexFree(lock)
    /\ lock' = "menu"
    /\ pc_m' = "del_cs"
    /\ UNCHANGED <<now, store, file, alarm_fired, alarm_at, running,
                   m_arg, schedv, notifiers, hist>>

\* delete_task calling save_tasks() before pthread_mutex_unlock
DeleteBodyKeepLock ==
    /\ running /\ pc_m = "del_cs"
    /\ LET idx == FindId(tasks, task_count, 1, m_arg) IN
       IF idx # 0
       THEN /\ tasks' = RemoveAt(tasks, task_count, idx)
            /\ task_count' = task_count - 1
            /\ deleted' = deleted \cup {tasks[idx]}
       ELSE UNCHANGED <<tasks, task_count, deleted>>
    /\ m_arg' = 0
    /\ pc_m' = "save_lock"
    /\ UNCHANGED <<now, next_id, file, lock, alarm_fired, alarm_at, running,
                   schedv, notifiers, issued>>

\* lines 150-158 of delete_task, the mutex held: find, shift down, unlock
DeleteBody ==
    /\ running /\ pc_m = "del_cs"
    /\ LET idx == FindId(tasks, task_count, 1, m_arg) IN
       IF idx # 0
       THEN /\ tasks' = RemoveAt(tasks, task_count, idx)
            /\ task_count' = task_count - 1
            /\ deleted' = deleted \cup {tasks[idx]}
       ELSE UNCHANGED <<tasks, task_count, deleted>>
    /\ lock' = "free"
    /\ m_arg' = 0
    /\ pc_m' = "save_lock"
    /\ UNCHANGED <<now, next_id, file, alarm_fired, alarm_at, running,
                   schedv, notifiers, issued>>

MenuSaveLock ==
    /\ running /\ pc_m = "save_lock" /\ MutexFree(lock)
    /\ lock' = "menu"
    /\ pc_m' = "save_cs"
    /\ UNCHANGED <<now, store, file, alarm_fired, alarm_at, running,
                   m_arg, schedv, notifiers, hist>>

MenuSaveBody ==
    /\ running /\ pc_m = "save_cs"
    /\ SaveWrite
    /\ lock' = "free"
    /\ pc_m' = "menu"
    /\ UNCHANGED <<now, store, alarm_fired, alarm_at, running,
                   m_arg, schedv, notifiers, hist>>

MenuExit ==
    /\ UserInput
    /\ pc_m' = "exit_lock"
    /\ UNCHANGED <<now, store, file, lock, alarm_fired, alarm_at, running,
                   m_arg, schedv, notifiers, hist>>

ExitSaveLock ==
    /\ running /\ pc_m = "exit_lock" /\ MutexFree(lock)
    /\ lock' = "menu"
    /\ pc_m' = "exit_cs"
    /\ UNCHANGED <<now, store, file, alarm_fired, alarm_at, running,
                   m_arg, schedv, notifiers, hist>>

\* save_tasks() returns and _exit(0) ends every thread
ExitSaveBody ==
    /\ running /\ pc_m = "exit_cs"
    /\ SaveWrite
    /\ lock' = "free"
    /\ pc_m' = "exited"
    /\ running' = FALSE
    /\ UNCHANGED <<now, store, alarm_fired, alarm_at,
                   m_arg, schedv, notifiers, hist>>

\* ---- SIGALRM ----
sigalrm_handler ==
    /\ running
    /\ alarm_at # 0 /\ alarm_at <= now
    /\ alarm_fired' = 1
    /\ alarm_at' = 0
    /\ UNCHANGED <<now, store, file, lock, running, menuv, schedv,
                   notifiers, hist>>

\* ---- scheduler thread ----
\* a scheduler that joins its reminder threads before it loops
SchedNdLockJoin ==
    /\ running /\ pc_s = "top" /\ MutexFree(lock)
    /\ \A n \in 1..Len(notifiers) : notifiers[n].st \in {"done", "discarded"}
    /\ lock' = "sched"
    /\ pc_s' = "nd_cs"
    /\ UNCHANGED <<now, store, file, alarm_fired, alarm_at, running, menuv,
                   nd, s_wake, tnow, due_count, copies, notifiers, hist>>

SchedNdLock ==
    /\ running /\ pc_s = "top" /\ MutexFree(lock)
    /\ lock' = "sched"
    /\ pc_s' = "nd_cs"
    /\ UNCHANGED <<now, store, file, alarm_fired, alarm_at, running, menuv,
                   nd, s_wake, tnow, due_count, copies, notifiers, hist>>

\* next_deadline() returning without pthread_mutex_unlock
SchedNdBodyKeepLock ==
    /\ running /\ pc_s = "nd_cs"
    /\ nd' = next_deadline(tasks, task_count, now)
    /\ pc_s' = "check"
    /\ UNCHANGED <<now, store, file, lock, alarm_fired, alarm_at, running, menuv,
                   s_wake, tnow, due_count, copies, notifiers, hist>>

\* lines 164-171 of next_deadline(), the mutex held: scan, unlock, return
SchedNdBody ==
    /\ running /\ pc_s = "nd_cs"
    /\ nd' = next_deadline(tasks, task_count, now)
    /\ lock' = "free"
    /\ pc_s' = "check"
    /\ UNCHANGED <<now, store, file, alarm_fired, alarm_at, running, menuv,
                   s_wake, tnow, due_count, copies, notifiers, hist>>

\* alarm(secs): the expiry time of the process's alarm; alarm(0) only cancels
Alarm(secs) == IF secs = 0 THEN 0 ELSE now + secs

\* lines 215-221 with "seconds < 0" for "seconds <= 0"
SchedCheckLt ==
    /\ running /\ pc_s = "check"
    /\ IF nd = 0
       THEN /\ s_wake' = now + 2
            /\ pc_s' = "poll_sleep"
            /\ UNCHANGED <<alarm_fired, alarm_at>>
       ELSE /\ IF nd - now < 0
               THEN alarm_fired' = 1 /\ UNCHANGED alarm_at
               ELSE alarm_at' = Alarm(nd - now) /\ UNCHANGED alarm_fired
            /\ pc_s' = "wait"
            /\ UNCHANGED s_wake
    /\ UNCHANGED <<now, store, file, lock, running, menuv,
                   nd, tnow, due_count, copies, notifiers, hist>>

\* lines 215-221: now = time(NULL); poll sleep, or arm the alarm
SchedCheck ==
    /\ running /\ pc_s = "check"
    /\ IF nd = 0
       THEN /\ s_wake' = now + 2
            /\ pc_s' = "poll_sleep"
            /\ UNCHANGED <<alarm_fired, alarm_at>>
       ELSE /\ IF nd - now <= 0
               THEN alarm_fired' = 1 /\ UNCHANGED alarm_at
               ELSE alarm_at' = Alarm(nd - now) /\ UNCHANGED alarm_fired
            /\ pc_s' = "wait"
            /\ UNCHANGED s_wake
    /\ UNCHANGED <<now, store, file, lock, running, menuv,
                   nd, tnow, due_count, copies, notifiers, hist>>

SchedPollWake ==
    /\ running /\ pc_s = "poll_sleep" /\ s_wake <= now
    /\ s_wake' = 0
    /\ pc_s' = "top"
    /\ UNCHANGED <<now, store, file, lock, alarm_fired, alarm_at, running,
                   menuv, nd, tnow, due_count, copies, notifiers, hist>>

\* line 223-224: while (!alarm_fired) sleep(1); alarm_fired = 0;
SchedWait ==
    /\ running /\ pc_s = "wait"
    /\ IF alarm_fired = 0
       THEN /\ s_wake' = now + 1
            /\ pc_s' = "wait_sleep"
            /\ UNCHANGED alarm_fired
       ELSE /\ alarm_fired' = 0
            /\ pc_s' = "ex_lock"
            /\ UNCHANGED s_wake
    /\ UNCHANGED <<now, store, file, lock, alarm_at, running, menuv,
                   nd, tnow, due_count, copies, notifiers, hist>>

\* line 223 as "if (!alarm_fired) sleep(1);": one sleep, then the extraction
SchedWaitWakeOnce ==
    /\ running /\ pc_s = "wait_sleep" /\ s_wake <= now
    /\ s_wake' = 0
    /\ pc_s' = "ex_lock"
    /\ UNCHANGED <<now, store, file, lock, alarm_fired, alarm_at, running,
                   menuv, nd, tnow, due_count, copies, notifiers, hist>>

\* sleep(1) of line 223 returns: back to the test of alarm_fired
SchedWaitWake ==
    /\ running /\ pc_s = "wait_sleep" /\ s_wake <= now
    /\ s_wake' = 0
    /\ pc_s' = "wait"
    /\ UNCHANGED <<now, store, file, lock, alarm_fired, alarm_at, running,
                   menuv, nd, tnow, due_count, copies, notifiers, hist>>

\* lines 226-227
SchedExLock ==
    /\ running /\ pc_s = "ex_lock" /\ MutexFree(lock)
    /\ lock' = "sched"
    /\ tnow' = now
    /\ pc_s' = "ex_count"
    /\ UNCHANGED <<now, store, file, alarm_fired, alarm_at, running, menuv,
                   nd, s_wake, due_count, copies, notifiers, hist>>

\* the counting pass without the "due_count == 0" return of line 231
SchedExCountNoReturn ==
    /\ running /\ pc_s = "ex_count"
    /\ due_count' = DueCount(tasks, task_count, 1, tnow)
    /\ pc_s' = "ex_move"
    /\ UNCHANGED <<now, store, file, lock, alarm_fired, alarm_at, running, menuv,
                   nd, s_wake, tnow, copies, notifiers, hist>>

\* lines 228-231: the counting pass
SchedExCount ==
    /\ running /\ pc_s = "ex_count"
    /\ LET dc == DueCount(tasks, task_count, 1, tnow) IN
       IF dc = 0
       THEN /\ lock' = "free"
            /\ tnow' = 0
            /\ nd' = 0
            /\ pc_s' = "top"
            /\ UNCHANGED due_count
       ELSE /\ due_count' = dc
            /\ pc_s' = "ex_move"
            /\ UNCHANGED <<lock, tnow, nd>>
    /\ UNCHANGED <<now, store, file, alarm_fired, alarm_at, running, menuv,
                   s_wake, copies, notifiers, hist>>

\* lines 233-242: the copy/compact pass, task_count = write_idx, unlock
SchedExMove ==
    /\ running /\ pc_s = "ex_move"
    /\ LET r == Compact(tasks, task_count, 1, tnow, <<>>, <<>>) IN
       /\ copies' = r[1]
       /\ tasks' = r[2]
       /\ task_count' = Len(r[2])
    /\ lock' = "free"
    /\ pc_s' = "ex_save_lock"
    /\ UNCHANGED <<now, next_id, file, alarm_fired, alarm_at, running, menuv,
                   nd, s_wake, tnow, due_count, notifiers, hist>>

\* line 244: save_tasks()
SchedSaveLock ==
    /\ running /\ pc_s = "ex_save_lock" /\ MutexFree(lock)
    /\ lock' = "sched"
    /\ pc_s' = "ex_save_cs"
    /\ UNCHANGED <<now, store, file, alarm_fired, alarm_at, running, menuv,
                   nd, s_wake, tnow, due_count, copies, notifiers, hist>>

SchedSaveBody ==
    /\ running /\ pc_s = "ex_save_cs"
    /\ SaveWrite
    /\ lock' = "free"
    /\ pc_s' = "spawn"
    /\ UNCHANGED <<now, store, alarm_fired, alarm_at, running, menuv,
                   nd, s_wake, tnow, due_count, copies, notifiers, hist>>

\* lines 246-252: dc is built and handed to a new detached reminder thread
NewNotifier(state) ==
    [items |-> copies, count |-> due_count, extracted_at |-> tnow,
     st |-> state, k |-> 0, start |-> 0, wake |-> 0, log |-> <<>>]

SchedSpawn ==
    /\ running /\ pc_s = "spawn"
    /\ notifiers' = Append(notifiers, NewNotifier("created"))
    /\ copies' = <<>>
    /\ due_count' = 0
    /\ tnow' = 0
    /\ nd' = 0
    /\ pc_s' = "top"
    /\ UNCHANGED <<now, store, file, lock, alarm_fired, alarm_at, running,
                   menuv, s_wake, hist>>

\* a failure path that puts the batch back into the store
SchedSpawnFailReinsert ==
    /\ running /\ pc_s = "spawn"
    /\ notifiers' = Append(notifiers, NewNotifier("discarded"))
    /\ copies' = <<>>
    /\ due_count' = 0
    /\ tnow' = 0
    /\ nd' = 0
    /\ pc_s' = "top"
    /\ tasks' = tasks \o copies
    /\ task_count' = task_count + Len(copies)
    /\ UNCHANGED <<now, next_id, file, lock, alarm_fired, alarm_at, running,
                   menuv, s_wake, hist>>

\* lines 253-257: pthread_create failed, the batch is freed
SchedSpawnFail ==
    /\ running /\ pc_s = "spawn"
    /\ notifiers' = Append(notifiers, NewNotifier("discarded"))
    /\ copies' = <<>>
    /\ due_count' = 0
    /\ tnow' = 0
    /\ nd' = 0
    /\ pc_s' = "top"
    /\ UNCHANGED <<now, store, file, lock, alarm_fired, alarm_at, running,
                   menuv, s_wake, hist>>

\* ---- reminder threads ----
\* what one printf loop over dc->items prints: the ids announced, in order
Announce(dc, secs) ==
    [secs |-> secs, at |-> now, ids |-> [i \in 1..dc.count |-> dc.items[i].id]]

\* lines 176-193: the initial announcement, then sleep(intervals[0])
NotifierStart(n) ==
    /\ running /\ notifiers[n].st = "created"
    /\ LET dc == notifiers[n] IN
       notifiers' = [notifiers EXCEPT ![n] =
           IF dc.count <= 0
           THEN [dc EXCEPT !.st = "done"]
           ELSE [dc EXCEPT !.st = "sleeping", !.k = 1, !.start = now,
                           !.wake = now + intervals[1],
                           !.log = <<Announce(dc, -1)>>]]
    /\ UNCHANGED <<now, store, file, lock, alarm_fired, alarm_at, running,
                   menuv, schedv, hist>>

\* the countdown loop sleeping intervals[k] again instead of intervals[k+1]
NotifierStageSameInterval(n) ==
    /\ running /\ notifiers[n].st = "sleeping" /\ notifiers[n].wake <= now
    /\ LET dc == notifiers[n]
           said == Append(dc.log, Announce(dc, announce_secs[dc.k])) IN
       notifiers' = [notifiers EXCEPT ![n] =
           IF dc.k < 5
           THEN [dc EXCEPT !.k = dc.k + 1, !.wake = now + intervals[dc.k],
                           !.log = said]
           ELSE [dc EXCEPT !.st = "done", !.wake = 0, !.log = said]]
    /\ UNCHANGED <<now, store, file, lock, alarm_fired, alarm_at, running,
                   menuv, schedv, hist>>

\* lines 192-207: sleep(intervals[k]) returns, stage k is announced for
\* every item; after the last stage the batch is freed and the thread ends
NotifierStage(n) ==
    /\ running /\ notifiers[n].st = "sleeping" /\ notifiers[n].wake <= now
    /\ LET dc == notifiers[n]
           said == Append(dc.log, Announce(dc, announce_secs[dc.k])) IN
       notifiers' = [notifiers EXCEPT ![n] =
           IF dc.k < 5
           THEN [dc EXCEPT !.k = dc.k + 1, !.wake = now + intervals[dc.k + 1],
                           !.log = said]
           ELSE [dc EXCEPT !.st = "done", !.wake = 0, !.log = said]]
    /\ UNCHANGED <<now, store, file, lock, alarm_fired, alarm_at, running,
                   menuv, schedv, hist>>

Next ==
    \/ Tick
    \/ MenuView \/ ViewLock \/ ViewBody
    \/ \E dl \in Deadlines : MenuAdd(dl)
    \/ AddLock \/ AddBody
    \/ \E id \in 1..MaxAdds + 1 : MenuDelete(id)
    \/ DeleteLock \/ DeleteBody
    \/ MenuSaveLock \/ MenuSaveBody
    \/ MenuExit \/ ExitSaveLock \/ ExitSaveBody
    \/ sigalrm_handler
    \/ SchedNdLock \/ SchedNdBody \/ SchedCheck \/ SchedPollWake
    \/ SchedWait \/ SchedWaitWake
    \/ SchedExLock \/ SchedExCount \/ SchedExMove
    \/ SchedSaveLock \/ SchedSaveBody
    \/ SchedSpawn \/ SchedSpawnFail
    \/ \E n \in 1..Len(notifiers) : NotifierStart(n)
    \/ \E n \in 1..Len(notifiers) : NotifierStage(n)

Spec == Init /\ [][Next]_vars

\* ---- the program started on a tasks.txt that fills the store ----
\* MAX_TASKS lines, their deadlines after the end of the modelled time
LoadedFiles == { <<Task(1, MaxTime + 1), Task(2, MaxTime + 1)>> }

LoadedInit ==
    /\ now = 1
    /\ file \in LoadedFiles
    /\ tasks = LoadTasks(file)
    /\ task_count = Len(tasks)
    /\ next_id = LoadNextId(file, 1, 1)
    /\ lock = "free"
    /\ alarm_fired = 0
    /\ alarm_at = 0
    /\ running = TRUE
    /\ pc_m = "menu"
    /\ m_arg = 0
    /\ pc_s = "top"
    /\ nd = 0
    /\ s_wake = 0
    /\ tnow = 0
    /\ due_count = 0
    /\ copies = <<>>
    /\ notifiers = <<>>
    /\ issued = <<>>
    /\ deleted = {}

LoadedSpec == LoadedInit /\ [][Next]_vars

TypeOK ==
    /\ now \in 1..MaxTime
    /\ task_count = Len(tasks)
    /\ lock \in {"free", "menu", "sched"}

\* ---- views of the state used by the properties ----
Live == SubSeq(tasks, 1, task_count)
IdsOf(ts) == {ts[i].id : i \in 1..Len(ts)}
StoreIds == IdsOf(Live)
DeletedIds == {t.id : t \in deleted}
\* ids in a batch that has left the store: the scheduler's copies and
\* every due_copy_t built so far
BatchIds ==
    IdsOf(copies) \cup UNION {IdsOf(notifiers[n].items) : n \in 1..Len(notifiers)}
IsDue(t, at) == t.deadline <= at
DueAt(ts, at) == SelectSeq(ts, LAMBDA t : IsDue(t, at))
NotDueAt(ts, at) == SelectSeq(ts, LAMBDA t : ~IsDue(t, at))

StrictlyIncreasing(q) == \A i, j \in 1..Len(q) : i < j => q[i] < q[j]
\* every task the process has ever held: live, deleted or extracted
KnownIds == StoreIds \cup DeletedIds \cup BatchIds

\* C2: the ids handed out by add_task are strictly increasing, no two live
\* tasks share an id, and an Add never hands out the id of a task that is or
\* was in the store (live, deleted or extracted).
C2_IdsFreshAndIncreasing ==
    /\ [](/\ StrictlyIncreasing(issued)
          /\ \A i, j \in 1..task_count : i # j => tasks[i].id # tasks[j].id
          /\ \A id \in KnownIds : id < next_id)
    /\ [][issued' # issued =>
             /\ Len(issued') = Len(issued) + 1
             /\ issued'[Len(issued')] \notin KnownIds
             /\ \A id \in KnownIds : id < issued'[Len(issued')]]_vars

\* a second id was handed out after the first task was deleted or extracted
C2_Witness ==
    /\ Len(issued) = 2
    /\ issued[1] \in DeletedIds \cup BatchIds
    /\ issued[2] \in StoreIds

\* ---- C3 ----
BatchCount(id) ==
    Cardinality({n \in 1..Len(notifiers) : id \in IdsOf(notifiers[n].items)})
    + (IF id \in IdsOf(copies) THEN 1 ELSE 0)

\* C3: a task that is in a batch is in the store in no later state (so it is
\* gone when the batch is handed to a reminder thread and List, NextDeadline
\* and Delete cannot see it), and it is in at most one batch.
C3_ExtractedNeverVisibleAgain ==
    /\ [](/\ BatchIds \cap StoreIds = {}
          /\ \A id \in BatchIds : BatchCount(id) = 1
          /\ \A n \in 1..Len(notifiers) :
                Cardinality(IdsOf(notifiers[n].items)) = Len(notifiers[n].items))
    /\ [][BatchIds \subseteq BatchIds' /\ BatchIds \cap StoreIds' = {}]_vars

\* a batch was handed to a reminder thread, and afterwards the user asked to
\* delete one of its tasks while the store held another task
C3_Witness ==
    /\ \E n \in 1..Len(notifiers) :
          notifiers[n].st = "sleeping" /\ m_arg \in IdsOf(notifiers[n].items)
    /\ pc_m = "del_cs"
    /\ task_count >= 1

\* ---- C4 ----
Range(q) == {q[i] : i \in DOMAIN q}
AnnouncedBy(dc) == UNION {Range(dc.log[j].ids) : j \in 1..Len(dc.log)}
AnnouncedIds == UNION {AnnouncedBy(notifiers[n]) : n \in 1..Len(notifiers)}

\* C4: a task removed by delete_task is in no batch and is announced by no
\* reminder thread, in this and every later state; no task is both deleted
\* and extracted.
C4_DeletedNeverExtracted ==
    /\ DeletedIds \cap BatchIds = {}
    /\ DeletedIds \cap AnnouncedIds = {}
    /\ DeletedIds \cap StoreIds = {}

\* a task was deleted before its deadline, and a batch was extracted at or
\* after that deadline and has been announced
C4_Witness ==
    \E t \in deleted : \E n \in 1..Len(notifiers) :
        /\ notifiers[n].extracted_at >= t.deadline
        /\ notifiers[n].log # <<>>
        /\ t.id < notifiers[n].items[1].id

\* ---- C5 ----
MenuCS == {"view_cs", "add_cs", "del_cs", "save_cs", "exit_cs"}
SchedCS == {"nd_cs", "ex_count", "ex_move", "ex_save_cs"}
Extracting == {"ex_count", "ex_move"}

\* C5: at most one thread is inside a critical section of tasks_mutex; while
\* the scheduler is between its counting pass and its update of task_count
\* it owns the mutex, the menu thread is in no critical section, and no
\* step other than the scheduler's own changes the task array, the count or
\* next_id.
C5_ExtractionAtomic ==
    /\ [](/\ ~(pc_m \in MenuCS /\ pc_s \in SchedCS)
          /\ pc_m \in MenuCS => lock = "menu"
          /\ pc_s \in SchedCS => lock = "sched")
    /\ [][(pc_s \in Extracting /\ pc_s' \in Extracting) =>
             UNCHANGED <<tasks, task_count, next_id>>]_vars

\* the menu thread waits for the mutex to add a task while the scheduler is
\* in the middle of an extraction
C5_Witness ==
    /\ pc_s = "ex_move"
    /\ pc_m = "add_lock"
    /\ task_count >= 1

\* ---- C6 ----
MinDeadline(ts) ==
    CHOOSE d \in {ts[i].deadline : i \in 1..Len(ts)} :
        \A i \in 1..Len(ts) : d <= ts[i].deadline

\* C6: next_deadline() evaluated at time now returns 0 on an empty store,
\* now when some live task has deadline <= now (wherever it is stored), and
\* otherwise the minimum deadline of the live tasks.
C6_NextDeadline ==
    [][(pc_s = "nd_cs" /\ pc_s' = "check") =>
         nd' = IF task_count = 0 THEN 0
               ELSE IF \E i \in 1..task_count : tasks[i].deadline <= now THEN now
               ELSE MinDeadline(Live)]_vars

\* next_deadline() has just answered `now` for a store whose first task is
\* still in the future and whose second task is due
C6_Witness ==
    /\ pc_s = "check"
    /\ task_count = 2
    /\ tasks[1].deadline > now
    /\ tasks[2].deadline <= now
    /\ nd = now

\* next_deadline() has just answered the smaller of two future deadlines,
\* stored second
C6_WitnessMin ==
    /\ pc_s = "check"
    /\ task_count = 2
    /\ tasks[2].deadline > now
    /\ tasks[1].deadline > tasks[2].deadline
    /\ nd = tasks[2].deadline

\* ---- C7 ----
\* Fair scheduling: the clock keeps advancing, the signal is delivered, every
\* thread that can run does run and a thread that keeps asking for the mutex
\* gets it.  The user is under no obligation to type anything.
\* the steps of a menu command under way (the choice itself is left to the user)
MenuStep ==
    \/ ViewLock \/ ViewBody \/ AddLock \/ AddBody \/ DeleteLock \/ DeleteBody
    \/ MenuSaveLock \/ MenuSaveBody \/ ExitSaveLock \/ ExitSaveBody

SchedStep ==
    \/ SchedNdLock \/ SchedNdBody \/ SchedCheck \/ SchedPollWake
    \/ SchedWait \/ SchedWaitWake
    \/ SchedExLock \/ SchedExCount \/ SchedExMove
    \/ SchedSaveLock \/ SchedSaveBody
    \/ SchedSpawn \/ SchedSpawnFail

NotifierStep ==
    \E n \in 1..Len(notifiers) : NotifierStart(n) \/ NotifierStage(n)

FairSpec ==
    /\ Spec
    /\ SF_vars(Tick)
    /\ WF_vars(sigalrm_handler)
    /\ SF_vars(MenuStep)
    /\ SF_vars(SchedStep)
    /\ WF_vars(NotifierStep)

\* C7: a task leaves the store only by delete_task or by extraction, and
\* under fair scheduling a store that holds tasks is eventually empty again,
\* with next_deadline() answering 0 (unless the user ends the process first):
\* so every task that is added and never deleted is eventually extracted.
C7_EveryTaskEventuallyExtracted ==
    /\ [](Range(issued) = StoreIds \cup DeletedIds \cup BatchIds)
    /\ (task_count > 0) ~>
          ((task_count = 0 /\ next_deadline(tasks, task_count, now) = 0) \/ ~running)

\* the single task of the store was extracted at its deadline, a second
\* after it was added, and the scheduler is back to polling an empty store
C7_Witness ==
    /\ Len(issued) = 1
    /\ task_count = 0
    /\ Len(notifiers) = 1
    /\ notifiers[1].extracted_at = notifiers[1].items[1].deadline
    /\ notifiers[1].extracted_at = 2
    /\ pc_s = "poll_sleep"

\* ---- C8 ----
Counting(n) == notifiers[n].st = "sleeping"

\* C8: the scheduler hands a batch to a new reminder thread and is back at
\* the top of its loop before that thread has run; whatever the reminder
\* threads are doing, the scheduler's next step only waits for the mutex;
\* the batches of any two reminder threads are disjoint.
C8_SchedulerNeverWaitsForNotifier ==
    /\ [][(pc_s = "spawn" /\ pc_s' # "spawn") =>
             /\ pc_s' = "top"
             /\ Len(notifiers') = Len(notifiers) + 1
             /\ notifiers'[Len(notifiers')].st \in {"created", "discarded"}
             /\ notifiers'[Len(notifiers')].log = <<>>]_vars
    /\ []((running /\ lock = "free") =>
             /\ pc_s = "top" => ENABLED SchedNdLock
             /\ pc_s = "ex_lock" => ENABLED SchedExLock
             /\ pc_s = "ex_save_lock" => ENABLED SchedSaveLock)
    /\ []((running /\ pc_s = "spawn") => ENABLED SchedSpawn)
    /\ [](\A m, n \in 1..Len(notifiers) :
             m # n => IdsOf(notifiers[m].items) \cap IdsOf(notifiers[n].items) = {})

\* two reminder threads are in their countdown at once, the second over a
\* batch that was extracted after the first had started
C8_Witness ==
    \E m, n \in 1..Len(notifiers) :
        /\ m < n
        /\ Counting(m) /\ Counting(n)
        /\ notifiers[n].extracted_at > notifiers[m].start

\* ---- C9 ----
\* C9: a reminder thread announces its batch when it starts and then the
\* stages 30, 20, 5, 1, final, at 30, 40, 55, 59 and 60 seconds after its
\* start, never late and never out of order; when it is done it has made all
\* five announcements, the last one 60 seconds after its start; no step of
\* the process takes a running reminder thread back or changes its batch.
C9_CountdownSchedule ==
    /\ [](\A n \in 1..Len(notifiers) :
          LET dc == notifiers[n]
              offsets == <<30, 40, 55, 59, 60>>
              stages == <<30, 20, 5, 1, 0>>
          IN  /\ dc.st \in {"created", "discarded"} => dc.log = <<>>
              /\ dc.st \in {"sleeping", "done"} =>
                    /\ Len(dc.log) >= 1
                    /\ dc.log[1].secs = -1 /\ dc.log[1].at = dc.start
                    /\ \A j \in 2..Len(dc.log) :
                          /\ dc.log[j].secs = stages[j - 1]
                          /\ dc.log[j].at = dc.start + offsets[j - 1]
              /\ dc.st = "sleeping" =>
                    /\ Len(dc.log) \in 1..5
                    /\ now <= dc.start + offsets[Len(dc.log)]
              /\ dc.st = "done" =>
                    /\ Len(dc.log) = 6
                    /\ dc.log[6].at - dc.start = 60)
    /\ [][\A n \in 1..Len(notifiers) :
             Counting(n) =>
                /\ notifiers'[n].st \in {"sleeping", "done"}
                /\ notifiers'[n].items = notifiers[n].items
                /\ notifiers'[n].start = notifiers[n].start
                /\ Len(notifiers'[n].log) >= Len(notifiers[n].log)]_vars

\* a reminder thread has run its whole countdown while the user deleted a task
C9_Witness ==
    \E n \in 1..Len(notifiers) :
        /\ notifiers[n].st = "done"
        /\ Len(notifiers[n].log) = 6
        /\ \E t \in deleted : TRUE

\* ---- C10 ----
\* C10: an extraction puts every task of the store that is due at tnow into
\* the one batch it builds, that batch goes to one reminder thread, and every
\* announcement of a reminder thread (the initial one and each of the five
\* stages) names every task of its batch.
C10_OneBatchAllAnnounced ==
    /\ [][(pc_s = "ex_move" /\ pc_s' # "ex_move") =>
             /\ \A i \in 1..task_count :
                   tasks[i].deadline <= tnow => tasks[i] \in Range(copies')
             /\ due_count = Len(copies')]_vars
    /\ [][(pc_s = "spawn" /\ pc_s' # "spawn") =>
             /\ Len(notifiers') = Len(notifiers) + 1
             /\ notifiers'[Len(notifiers')].items = copies
             /\ \A n \in 1..Len(notifiers) : notifiers'[n] = notifiers[n]]_vars
    /\ [](\A n \in 1..Len(notifiers) :
             /\ notifiers[n].count = Len(notifiers[n].items)
             /\ \A j \in 1..Len(notifiers[n].log) :
                   notifiers[n].log[j].ids =
                       [i \in 1..Len(notifiers[n].items) |-> notifiers[n].items[i].id]
             /\ notifiers[n].st = "done" => Len(notifiers[n].log) = 6)

\* two tasks with the same deadline went into one batch and its reminder
\* thread has finished, having named both six times
C10_Witness ==
    \E n \in 1..Len(notifiers) :
        /\ notifiers[n].st = "done"
        /\ Len(notifiers[n].items) = 2
        /\ notifiers[n].items[1].deadline = notifiers[n].items[2].deadline
        /\ notifiers[n].extracted_at = notifiers[n].items[1].deadline
        /\ \A j \in 1..6 : Len(notifiers[n].log[j].ids) = 2

\* ---- C11 ----
\* C11: an add_task that finds task_count at MAX_TASKS returns to the menu
\* and leaves tasks, task_count, next_id and tasks.txt as they were; the
\* task count is at most MAX_TASKS in every reachable state.
C11_AddAtCapacityRejected ==
    /\ [](task_count <= MAX_TASKS)
    /\ [][(pc_m = "add_cs" /\ pc_m' # "add_cs" /\ task_count >= MAX_TASKS) =>
             /\ UNCHANGED <<tasks, task_count, next_id, file, issued>>
             /\ pc_m' = "menu"]_vars

\* add_task holds the mutex on a full store, the task it was asked to add
\* being due before every task of the store
C11_Witness ==
    /\ pc_m = "add_cs"
    /\ task_count = MAX_TASKS
    /\ \A i \in 1..task_count : m_arg < tasks[i].deadline

C13_SpawnFailureDiscards ==
    /\ [][(/\ pc_s = "spawn" /\ pc_s' # "spawn"
           /\ notifiers'[Len(notifiers')].st = "discarded") =>
             /\ UNCHANGED <<tasks, task_count, next_id, file>>
             /\ notifiers'[Len(notifiers')].items = copies
             /\ copies' = <<>>
             /\ pc_s' = "top"]_vars
    /\ [][\A n \in 1..Len(notifiers) :
             notifiers[n].st = "discarded" => notifiers'[n] = notifiers[n]]_vars
    /\ [](\A n \in 1..Len(notifiers) :
             notifiers[n].st = "discarded" =>
                 /\ notifiers[n].log = <<>>
                 /\ IdsOf(notifiers[n].items) \cap StoreIds = {}
                 /\ IdsOf(notifiers[n].items) \cap IdsOf(file) = {})

\* a batch of two tasks was discarded and the scheduler, a second later, is
\* polling the empty store again
C13_Witness ==
    \E n \in 1..Len(notifiers) :
        /\ notifiers[n].st = "discarded"
        /\ Len(notifiers[n].items) = 2
        /\ now > notifiers[n].extracted_at
        /\ pc_s = "poll_sleep"
        /\ task_count = 0

\* ---- C14 ----
\* C14: the extraction step run again on the store an extraction has just
\* left, with the same tnow and no task added in between, finds nothing: its
\* counting pass counts 0 due tasks (so line 231 returns before the second
\* pass), and even its second pass would copy nothing and keep every task in
\* place.
C14_ExtractionIdempotent ==
    [][(pc_s = "ex_move" /\ pc_s' # "ex_move") =>
          /\ DueCount(tasks', task_count', 1, tnow) = 0
          /\ Compact(tasks', task_count', 1, tnow, <<>>, <<>>) = <<<<>>, tasks'>>
          /\ tnow' = tnow]_vars

\* an extraction took the one task due at tnow and left the task due a second
\* later
C14_Witness ==
    /\ pc_s = "ex_save_lock"
    /\ Len(copies) = 1
    /\ copies[1].deadline = tnow
    /\ task_count = 1
    /\ tasks[1].deadline = tnow + 1

\* ---- C15 ----
\* a thread that has changed the array (or, for delete_task, searched it) and
\* has not yet finished the save_tasks() call that follows
MenuUnsaved == pc_m \in {"save_lock", "save_cs"}
SchedUnsaved == pc_s \in {"ex_save_lock", "ex_save_cs"}

\* C15: only add_task, delete_task and the scheduler's extraction change the
\* array; the thread that changed it goes straight to save_tasks() and does
\* nothing else to the store before save_tasks() has written the file; and
\* in every state where neither thread is between its change and the end of
\* its save_tasks(), tasks.txt holds exactly the tasks of the store, in order.
C15_SavedAfterEveryMutation ==
    /\ []((~MenuUnsaved /\ ~SchedUnsaved) => file = Live)
    /\ [][tasks' # tasks =>
             \/ pc_m \in {"add_cs", "del_cs"} /\ pc_m' = "save_lock"
             \/ pc_s = "ex_move" /\ pc_s' = "ex_save_lock"]_vars
    /\ [][/\ pc_m = "save_lock" => pc_m' \in {"save_lock", "save_cs"}
          /\ pc_s = "ex_save_lock" => pc_s' \in {"ex_save_lock", "ex_save_cs"}
          /\ (pc_m = "save_cs" /\ pc_m' # pc_m) =>
                 file' = Live /\ UNCHANGED <<tasks, task_count, next_id>>
          /\ (pc_s = "ex_save_cs" /\ pc_s' # pc_s) =>
                 file' = Live /\ UNCHANGED <<tasks, task_count, next_id>>
          /\ file' # file =>
                 \/ pc_m \in {"save_cs", "exit_cs"} /\ pc_m' # pc_m
                 \/ pc_s = "ex_save_cs" /\ pc_s' # pc_s]_vars

\* the user added a task between an extraction and the scheduler's save, the
\* task being already due at the time of that extraction; both threads have
\* saved since
C15_Witness ==
    /\ pc_s = "spawn"
    /\ pc_m = "menu"
    /\ Len(copies) >= 1
    /\ task_count = 1
    /\ tasks[1].deadline <= tnow
    /\ file = Live

\* ---- C16 ----
\* a thread inside save_tasks(), between its pthread_mutex_lock and its
\* pthread_mutex_unlock: the fopen/fprintf/fclose of lines 85-92
MenuWriting == pc_m \in {"save_cs", "exit_cs"}
SchedWriting == pc_s = "ex_save_cs"

\* C16 as stated: no thread holds tasks_mutex while it is writing tasks.txt.
C16_NoLockWhileWriting ==
    /\ ~(MenuWriting /\ lock = "menu")
    /\ ~(SchedWriting /\ lock = "sched")

\* C16 amended: a thread has released the mutex it took for its change of
\* the store by the time it calls save_tasks(); save_tasks() then takes the
\* mutex itself, tasks.txt is written only by a thread inside save_tasks()
\* that holds the mutex, and the mutex is released when the write is done.
C16_SaveCalledUnlockedWritesLocked ==
    /\ [](/\ pc_m \in {"save_lock", "exit_lock"} => lock # "menu"
          /\ pc_s = "ex_save_lock" => lock # "sched"
          /\ MenuWriting => lock = "menu"
          /\ SchedWriting => lock = "sched")
    /\ [][file' # file =>
             /\ \/ MenuWriting /\ lock = "menu" /\ pc_m' # pc_m
                \/ SchedWriting /\ lock = "sched" /\ pc_s' # pc_s
             /\ lock' = "free"]_vars

\* the scheduler is writing tasks.txt after an extraction, holding the mutex,
\* and add_task is waiting for the mutex
C16_Witness ==
    /\ SchedWriting
    /\ lock = "sched"
    /\ pc_m = "add_lock"
    /\ file # Live

\* ---- C17 ----
\* the scheduler is in sleep(2) of line 217 or in the wait loop of line 223
SchedSuspended == pc_s \in {"poll_sleep", "wait", "wait_sleep"}

\* C17: while the scheduler is in its poll sleep or in its wait for the alarm
\* it does not own tasks_mutex, so a view, add or delete that asks for the
\* mutex then is not kept waiting by the scheduler: either the menu thread
\* is the owner or the mutex is free and the lock step can be taken; the
\* owner of the mutex is never a reminder thread and no step of a reminder
\* thread changes the owner.
C17_SchedulerSleepsUnlocked ==
    /\ [](SchedSuspended => lock # "sched")
    /\ []((SchedSuspended /\ running /\ pc_m = "view_lock") => ENABLED ViewLock)
    /\ []((SchedSuspended /\ running /\ pc_m = "add_lock") => ENABLED AddLock)
    /\ []((SchedSuspended /\ running /\ pc_m = "del_lock") => ENABLED DeleteLock)
    /\ [](lock \in {"free", "menu", "sched"})
    /\ [][notifiers' # notifiers /\ pc_s' = pc_s => lock' = lock]_vars

\* delete_task is inside its critical section while the scheduler waits for
\* an alarm that has not expired yet and a reminder thread is counting down
C17_Witness ==
    /\ pc_s \in {"wait", "wait_sleep"}
    /\ alarm_at > now
    /\ pc_m = "del_cs"
    /\ lock = "menu"
    /\ \E n \in 1..Len(notifiers) : notifiers[n].st = "sleeping"

\* ---- C18 ----
\* C18: when the scheduler has woken and locked and no task of the store has
\* deadline <= tnow, it unlocks and goes back to the top of its loop (the call
\* of next_deadline) leaving tasks, task_count, next_id, tasks.txt and the
\* set of reminder threads as they were; a batch on its way to save_tasks()
\* or to pthread_create, and every batch a reminder thread was created for,
\* holds at least one task.
C18_EmptyWakeIsNoOp ==
    /\ [][(/\ pc_s = "ex_count" /\ pc_s' # "ex_count"
           /\ \A i \in 1..task_count : tasks[i].deadline > tnow) =>
             /\ UNCHANGED <<tasks, task_count, next_id, file, notifiers, copies>>
             /\ lock' = "free"
             /\ pc_s' = "top"]_vars
    /\ [](pc_s \in {"ex_save_lock", "ex_save_cs", "spawn"} =>
             Len(copies) >= 1 /\ due_count = Len(copies))
    /\ [](\A n \in 1..Len(notifiers) :
             Len(notifiers[n].items) >= 1 /\ notifiers[n].count >= 1)

\* the alarm has fired for a task the user deleted during the wait: the
\* scheduler holds the mutex, the deleted task would have been due, and the
\* one task left in the store is not
C18_Witness ==
    /\ pc_s = "ex_count"
    /\ task_count = 1
    /\ tasks[1].deadline > tnow
    /\ \E t \in deleted : t.deadline <= tnow

\* ---- C19 ----
\* C19: the scheduler that got T = nd from next_deadline() waits T - now
\* seconds: with T <= now it sets alarm_fired itself and does not wait, else
\* it arms the alarm for T.  While the alarm is pending the scheduler stays
\* in its wait loop, whatever add_task and delete_task do meanwhile: no menu
\* step changes the alarm, alarm_fired or the scheduler's position, and no
\* task leaves the store for a batch.  alarm_fired is set only by the alarm
\* expiring at T (or by the no-wait case), the wait loop is left only with
\* alarm_fired set, and the extraction that follows reads a time tnow >= T
\* and takes every task with deadline < T that is then in the store.
C19_WaitEndsOnlyOnTimer ==
    /\ [](alarm_at # 0 =>
             /\ pc_s \in {"wait", "wait_sleep"}
             /\ alarm_at = nd
             /\ alarm_fired = 0
             /\ now <= nd)
    /\ [](pc_s \in {"ex_lock", "ex_count", "ex_move"} => nd # 0 /\ nd <= now)
    /\ [][(pc_s = "check" /\ pc_s' = "wait") =>
             IF nd - now <= 0
             THEN alarm_fired' = 1 /\ alarm_at' = 0
             ELSE alarm_fired' = 0 /\ alarm_at' = now + (nd - now)]_vars
    /\ [][(alarm_fired = 0 /\ alarm_fired' = 1) =>
             \/ pc_s = "check" /\ nd <= now
             \/ alarm_at # 0 /\ alarm_at <= now /\ alarm_at' = 0]_vars
    /\ [][(pc_s \in {"wait", "wait_sleep"} /\ pc_s' \notin {"wait", "wait_sleep"}) =>
             alarm_fired = 1 /\ alarm_at = 0 /\ pc_s' = "ex_lock"]_vars
    /\ [][(pc_s \in {"wait", "wait_sleep"}) =>
             /\ BatchIds' = BatchIds
             /\ lock' # "sched"
             /\ UNCHANGED nd]_vars
    /\ [][pc_m' # pc_m => UNCHANGED <<pc_s, nd, alarm_at, alarm_fired>>]_vars
    /\ [][(pc_s = "ex_move" /\ pc_s' # "ex_move") =>
             /\ tnow >= nd
             /\ \A i \in 1..task_count :
                   tasks[i].deadline < nd => tasks[i] \in Range(copies')]_vars

\* the scheduler waited for the deadline nd of the first task; the second
\* task, added during that wait with an earlier deadline, stayed in the store
\* past its own deadline and has now been extracted together with the first
C19_Witness ==
    /\ pc_s = "ex_save_lock"
    /\ Len(copies) = 2
    /\ copies[1].deadline = nd
    /\ copies[2].deadline < nd
    /\ copies[1].id < copies[2].id
    /\ tnow >= nd

\* ---- C20 ----
\* the program started on the full tasks.txt, under the fair scheduling of
\* FairSpec
FairLoadedSpec ==
    /\ LoadedSpec
    /\ SF_vars(Tick)
    /\ WF_vars(sigalrm_handler)
    /\ SF_vars(MenuStep)
    /\ SF_vars(SchedStep)
    /\ WF_vars(NotifierStep)

\* a thread at a pthread_mutex_lock call
MenuAtLock == pc_m \in {"view_lock", "add_lock", "del_lock", "save_lock", "exit_lock"}
SchedAtLock == pc_s \in {"top", "ex_lock", "ex_save_lock"}

\* C20: a thread calling pthread_mutex_lock does not own tasks_mutex; the
\* owner is always a thread inside one of its critical sections, it can
\* always take its next step there (it neither sleeps nor locks again), and
\* every step that leaves a critical section, early returns included, frees
\* the mutex; under fair scheduling a thread that calls pthread_mutex_lock
\* gets the mutex (unless the process exits first).
C20_NoLockDeadlock ==
    /\ [](/\ MenuAtLock => lock # "menu"
          /\ SchedAtLock => lock # "sched"
          /\ lock = "menu" <=> pc_m \in MenuCS
          /\ lock = "sched" <=> pc_s \in SchedCS)
    /\ []((running /\ lock = "menu") => ENABLED MenuStep)
    /\ []((running /\ lock = "sched") => ENABLED SchedStep)
    /\ [][/\ (pc_m \in MenuCS /\ pc_m' # pc_m) => lock' = "free"
          /\ (pc_s \in SchedCS /\ pc_s' \notin SchedCS) => lock' = "free"]_vars
    /\ MenuAtLock ~> (lock = "menu" \/ ~running)
    /\ SchedAtLock ~> (lock = "sched" \/ ~running)

\* add_task on a full store is waiting for the mutex, which the scheduler
\* holds inside next_deadline()
C20_Witness ==
    /\ pc_m = "add_lock"
    /\ task_count = MAX_TASKS
    /\ lock = "sched"
    /\ pc_s = "nd_cs"

====
